---- MODULE Spec2Model ----
(***************************************************************************)
(* A model of py-trojan-emailer.py: main's dispatch, send_multiple_emails  *)
(* (CSV parsing, validation, confirmation, the send loop), confirm_action  *)
(* and send_email (headers, body read and rewind, placeholder              *)
(* substitution, attachment, SMTP connection, login, submission).          *)
(*                                                                         *)
(* Text is modelled as sequences of one-character strings, so that         *)
(* str.replace, str.lower and str.format are computed character by         *)
(* character.  Python values that may be a str, None or a list are records *)
(* [kind, s].  Subject, X-Priority and CC headers and logging calls carry  *)
(* no state that any property below reads and are left out.                *)
(***************************************************************************)
EXTENDS Integers, Sequences, FiniteSets, TLC

(***************************************************************************)
(* Bounds of the exploration.                                              *)
(***************************************************************************)
MaxRows == 2        \* CSV lines after the header line
MaxLineLen == 3     \* characters of one operator input line (confirm_action alone)
MaxBodyLen == 5     \* characters of a body (substitution loop alone)

(***************************************************************************)
(* Python values.                                                          *)
(***************************************************************************)
Str(s) == [kind |-> "str", s |-> s]
None == [kind |-> "none", s |-> <<>>]
ListOf(items) == [kind |-> "list", s |-> items]
IsStr(v) == v.kind = "str"

RECURSIVE SeqsUpTo(_, _)
SeqsUpTo(A, n) ==
    IF n = 0 THEN {<<>>}
    ELSE LET shorter == SeqsUpTo(A, n - 1)
         IN  shorter \cup {Append(s, c) : s \in shorter, c \in A}

EmailAddress == <<"E", "m", "a", "i", "l", "A", "d", "d", "r", "e", "s", "s">>
emailaddress == <<"e", "m", "a", "i", "l", "a", "d", "d", "r", "e", "s", "s">>
Email == <<"E", "m", "a", "i", "l">>
email_address == <<"e", "m", "a", "i", "l", "_", "a", "d", "d", "r", "e", "s", "s">>
Name == <<"N", "a", "m", "e">>

(***************************************************************************)
(* str.lower, one character at a time (confirm_action, line 132).          *)
(***************************************************************************)
LowerChar(c) ==
    CASE c = "Y" -> "y"
      [] c = "N" -> "n"
      [] c = "M" -> "m"
      [] c = "E" -> "e"
      [] c = "A" -> "a"
      [] OTHER -> c

Lower(s) == [i \in DOMAIN s |-> LowerChar(s[i])]

(***************************************************************************)
(* The decision of one iteration of confirm_action's loop (lines 134-139): *)
(* "True" and "False" are the two returns, "retry" the warning branch.     *)
(***************************************************************************)
\* Faulty variant: the line is compared as typed, without lower().
ConfirmOutcomeNoLower(line, dflt) ==
    IF line = dflt \/ line = <<>> THEN "True"
    ELSE IF (line = <<"y">> \/ line = <<"n">>) /\ line # dflt THEN "False"
    ELSE "retry"

ConfirmOutcome(line, dflt) ==
    LET choice == Lower(line)
    IN  IF choice = dflt \/ choice = <<>> THEN "True"
        ELSE IF (choice = <<"y">> \/ choice = <<"n">>) /\ choice # dflt THEN "False"
        ELSE "retry"

(***************************************************************************)
(* str.replace(old, new) for a non-empty old: the occurrences of old are   *)
(* found left to right without overlap and the result is not rescanned.    *)
(***************************************************************************)
RECURSIVE Replace(_, _, _)
Replace(s, old, new) ==
    IF Len(s) < Len(old) THEN s
    ELSE IF SubSeq(s, 1, Len(old)) = old
         THEN new \o Replace(SubSeq(s, Len(old) + 1, Len(s)), old, new)
         ELSE <<s[1]>> \o Replace(Tail(s), old, new)

\* '${0}$'.format(key) (line 41); format(None) prints the word None
Egg(key) ==
    <<"$">> \o (IF IsStr(key) THEN key.s ELSE <<"N", "o", "n", "e">>) \o <<"$">>

(***************************************************************************)
(* The substitution loop of send_email (lines 39-43) over the items of     *)
(* replacement_values in mapping order, from item i on.  The result is     *)
(* [ok, body]: str.replace raises TypeError on a value that is not a str,  *)
(* and the loop ends there.                                                *)
(***************************************************************************)
\* Faulty variant: the loop stops after its first item.
SubstituteFirstOnlyFrom(body, items, i) ==
    IF i > Len(items) THEN [ok |-> TRUE, body |-> body]
    ELSE IF ~IsStr(items[i].value) THEN [ok |-> FALSE, body |-> body]
    ELSE [ok |-> TRUE, body |-> Replace(body, Egg(items[i].key), items[i].value.s)]

RECURSIVE SubstituteFrom(_, _, _)
SubstituteFrom(body, items, i) ==
    IF i > Len(items) THEN [ok |-> TRUE, body |-> body]
    ELSE IF ~IsStr(items[i].value) THEN [ok |-> FALSE, body |-> body]
    ELSE SubstituteFrom(Replace(body, Egg(items[i].key), items[i].value.s), items, i + 1)

(***************************************************************************)
(* csv.DictReader as send_multiple_emails uses it (line 87).  A file is a  *)
(* sequence of CSV lines, each a sequence of fields; the first line gives  *)
(* the field names.  A dict is the sequence of its items in insertion      *)
(* order.  Blank lines are skipped, a short line fills the missing fields  *)
(* with None (restval), a long line puts the surplus under the key None    *)
(* (restkey) as a list.                                                    *)
(***************************************************************************)
HasKey(d, k) == \E i \in DOMAIN d : d[i].key = k

DictSet(d, k, v) ==
    IF HasKey(d, k)
    THEN [i \in DOMAIN d |-> IF d[i].key = k THEN [key |-> k, value |-> v] ELSE d[i]]
    ELSE Append(d, [key |-> k, value |-> v])

RECURSIVE ZipInto(_, _, _, _)
ZipInto(d, fieldnames, row, i) ==
    IF i > Len(fieldnames) THEN d
    ELSE ZipInto(DictSet(d, Str(fieldnames[i]),
                         IF i <= Len(row) THEN Str(row[i]) ELSE None),
                 fieldnames, row, i + 1)

DictOfRow(fieldnames, row) ==
    LET d == ZipInto(<<>>, fieldnames, row, 1)
    IN  IF Len(fieldnames) < Len(row)
        THEN DictSet(d, None, ListOf(SubSeq(row, Len(fieldnames) + 1, Len(row))))
        ELSE d

DictReader(file) ==
    IF file = <<>> THEN <<>>
    ELSE LET fieldnames == Head(file)
             rows == SelectSeq(Tail(file), LAMBDA r : r # <<>>)
         IN  [i \in DOMAIN rows |-> DictOfRow(fieldnames, rows[i])]

\* individual_recipient['EmailAddress'] (lines 115-116)
DictGet(d, k) == d[CHOOSE i \in DOMAIN d : d[i].key = k].value

(***************************************************************************)
(* The From header (lines 22-26) and the envelope sender (lines 77-80).    *)
(***************************************************************************)
SpaceHackWidth == 200

Spaces(n) == [i \in 1..n |-> " "]

\* Faulty variant: one padding space fewer.
FromHeaderShortPad(display_name, address, hide) ==
    IF hide = FALSE
    THEN <<"\"">> \o display_name \o <<"\"", " ", "<">> \o address \o <<">">>
    ELSE LET space_hack == Spaces(SpaceHackWidth - 1) \o <<"|">>
         IN  <<"\"">> \o display_name \o <<" ">> \o space_hack
                 \o <<"\"", " ", "<">> \o address \o <<">">>

FromHeader(display_name, address, hide) ==
    IF hide = FALSE
    THEN <<"\"">> \o display_name \o <<"\"", " ", "<">> \o address \o <<">">>
    ELSE LET space_hack == Spaces(SpaceHackWidth) \o <<"|">>
         IN  <<"\"">> \o display_name \o <<" ">> \o space_hack
                 \o <<"\"", " ", "<">> \o address \o <<">">>

\* The least index >= from at which s holds c, or 0.
IndexFrom(s, c, from) ==
    IF \E i \in from..Len(s) : s[i] = c
    THEN CHOOSE i \in from..Len(s) : s[i] = c /\ \A j \in from..(i - 1) : s[j] # c
    ELSE 0

(***************************************************************************)
(* What smtplib's send_message takes from the From header when it is given *)
(* no from_addr: email.utils.getaddresses([header])[0][1].  For a header   *)
(* that is one quoted display name followed by <address> that is the text  *)
(* between the angle brackets that follow the quoted string.               *)
(***************************************************************************)
AddrOfHeader(h) ==
    LET q1 == IndexFrom(h, "\"", 1)
        q2 == IndexFrom(h, "\"", q1 + 1)
        lt == IndexFrom(h, "<", q2 + 1)
        gt == IndexFrom(h, ">", lt + 1)
    IN  IF q1 = 0 \/ q2 = 0 \/ lt = 0 \/ gt = 0 THEN <<>>
        ELSE SubSeq(h, lt + 1, gt - 1)

\* Faulty variant: the override is ignored.
MailFromAlwaysHeader(envelope_sender_address, from_header) ==
    AddrOfHeader(from_header)

MailFrom(envelope_sender_address, from_header) ==
    IF envelope_sender_address # None
    THEN envelope_sender_address.s
    ELSE AddrOfHeader(from_header)

(***************************************************************************)
(* File objects (argparse.FileType): read() returns what lies after the    *)
(* cursor and leaves the cursor at the end, seek(0) rewinds.               *)
(***************************************************************************)
NoFile == [present |-> FALSE, content |-> <<>>, pos |-> 0]
OpenFile(content) == [present |-> TRUE, content |-> content, pos |-> 0]
ReadAll(f) == SubSeq(f.content, f.pos + 1, Len(f.content))
AtEnd(f) == [f EXCEPT !.pos = Len(f.content)]

\* Faulty variant: no seek(0) after read().
RewindNot(f) == f

Rewind(f) == [f EXCEPT !.pos = 0]

(***************************************************************************)
(* The state.                                                              *)
(***************************************************************************)
VARIABLES
    pc,                     \* the statement the program is at
    exitKind,               \* how the process ended, "running" before that
    cli_arguments,          \* the parsed command line (never assigned after main)
    email_body,             \* cli_arguments.email_body, an open text file
    email_attachment,       \* cli_arguments.email_attachment, an open file or absent
    recipient_information,  \* send_multiple_emails: the list of row dicts
    idx,                    \* send_multiple_emails: rows taken by the send loop
    default,                \* confirm_action: its default argument
    choice,                 \* confirm_action: the last line read, as typed
    confirmResult,          \* what confirm_action returned, None before it returns
    prompted,               \* whether the confirmation prompt has been shown
    se,                     \* send_email: its arguments and locals
    conns,                  \* every SMTP connection made so far: [open, msgs]
    calls,                  \* the row index of every send_email call made
    events                  \* what left the process: messages sent and delays taken

vars == <<pc, exitKind, cli_arguments, email_body, email_attachment,
          recipient_information, idx, default, choice, confirmResult, prompted,
          se, conns, calls, events>>

NoLocals == [to |-> None, repl |-> None, from |-> <<>>, body |-> <<>>,
             attachment |-> None]
NoMsg == [to |-> None, from |-> <<>>, body |-> <<>>, attachment |-> None,
          mail_from |-> <<>>]
DictOf(items) == [kind |-> "dict", s |-> items]

(***************************************************************************)
(* Inputs.                                                                 *)
(***************************************************************************)
SenderAddress == <<"s", "@", "x">>
OtherAddress == <<"e", "@", "y">>
Alice == <<"a">>
Bob == <<"b">>

Headers == {<<>>, <<EmailAddress>>, <<EmailAddress, Name>>, <<Name, EmailAddress>>,
            <<Email, email_address>>, <<emailaddress, Name>>}
Rows == {<<>>, <<Alice>>, <<Bob>>, <<Alice, Bob>>, <<Bob, Alice>>}
RecipientFiles ==
    {<<>>} \cup {<<h>> \o rows : h \in Headers, rows \in SeqsUpTo(Rows, MaxRows)}

Templates == {<<"H", "i", " ", "$", "N", "a", "m", "e", "$">>,
              <<"$", "N", "a", "m", "e", "$", "$", "N", "a", "m", "e", "$">>}
Attachments == {NoFile, OpenFile(<<"P", "D", "F">>)}
Credentials == {<<None, None>>, <<Str(<<"u">>), Str(<<"p">>)>>,
                <<Str(<<"u">>), None>>, <<None, Str(<<"p">>)>>}
Envelopes == {None, Str(SenderAddress), Str(OtherAddress)}
DisplayNames == {<<"B", "o", "b">>, <<"B", " ">>, <<>>}

Args(recipient, file, name, hide, envelope, cred) ==
    [recipient |-> recipient, recipient_file |-> file,
     sender_address |-> SenderAddress, sender_display_name |-> name,
     hide_source_email |-> hide, envelope_sender_address |-> envelope,
     smtp_username |-> cred[1], smtp_password |-> cred[2]]

\* -r and -R are mutually exclusive and one of them is required (lines 161-164)
Arguments ==
    {Args(Str(Alice), None, name, hide, envelope, cred) :
        name \in DisplayNames, hide \in BOOLEAN, envelope \in Envelopes,
        cred \in Credentials}
    \cup
    {Args(None, ListOf(file), name, hide, envelope, cred) :
        file \in RecipientFiles, name \in DisplayNames, hide \in BOOLEAN,
        envelope \in Envelopes, cred \in Credentials}

SampleLines == {<<>>, <<"y">>, <<"Y">>, <<"n">>, <<"N">>, <<"m">>, <<"y", "e">>}
AllLines == SeqsUpTo({"y", "Y", "n", "N", "m", " "}, MaxLineLen)

Idle ==
    /\ exitKind = "running"
    /\ recipient_information = <<>>
    /\ idx = 0
    /\ confirmResult = "None"
    /\ prompted = FALSE
    /\ conns = <<>>
    /\ calls = <<>>
    /\ events = <<>>

Init ==
    /\ pc = "main"
    /\ cli_arguments \in Arguments
    /\ email_body \in {OpenFile(t) : t \in Templates}
    /\ email_attachment \in Attachments
    /\ default = <<>>
    /\ choice = None
    /\ se = NoLocals
    /\ Idle

(***************************************************************************)
(* An exception nobody catches (there is no try in send_email or in        *)
(* send_multiple_emails), and exit(): the process ends.                    *)
(***************************************************************************)
\* Faulty variant: the exception is caught in the send loop, which goes on.
RaiseCaught(kind) == [pc |-> "sme_sleep", exitKind |-> kind]

Raise(kind) == [pc |-> "exited", exitKind |-> kind]

Exit(kind) ==
    /\ pc' = "exited"
    /\ exitKind' = kind

(***************************************************************************)
(* main, lines 189-201.                                                    *)
(***************************************************************************)
CredentialMismatch(args) ==
    /\ (args.smtp_username # None \/ args.smtp_password # None)
    /\ (args.smtp_username = None \/ args.smtp_password = None)

Main ==
    /\ pc = "main"
    /\ IF CredentialMismatch(cli_arguments)
       THEN /\ Exit("config_error")
            /\ UNCHANGED <<se, calls>>
       ELSE IF cli_arguments.recipient # None
       THEN /\ pc' = "se_headers"
            /\ se' = [NoLocals EXCEPT !.to = cli_arguments.recipient]
            /\ calls' = Append(calls, 0)
            /\ UNCHANGED exitKind
       ELSE /\ pc' = "sme_parse"
            /\ UNCHANGED <<exitKind, se, calls>>
    /\ UNCHANGED <<cli_arguments, email_body, email_attachment,
                   recipient_information, idx, default, choice, confirmResult,
                   prompted, conns, events>>

Throw(kind) ==
    /\ pc' = Raise(kind).pc
    /\ exitKind' = Raise(kind).exitKind

(***************************************************************************)
(* send_multiple_emails, lines 87-109: parse, validate, list the           *)
(* recipients, call confirm_action with the default 'y'.                   *)
(***************************************************************************)
\* Faulty variant: a field named Email is accepted too.
MissingFieldOrEmail(info) ==
    /\ ~HasKey(info[1], Str(EmailAddress))
    /\ ~HasKey(info[1], Str(Email))

MissingField(info) == ~HasKey(info[1], Str(EmailAddress))

SME_Parse ==
    /\ pc = "sme_parse"
    /\ LET info == DictReader(cli_arguments.recipient_file.s)
       IN  /\ recipient_information' = info
           /\ IF Len(info) < 1
              THEN Exit("too_short") /\ UNCHANGED default
              ELSE IF MissingField(info)
              THEN Exit("missing_field") /\ UNCHANGED default
              ELSE /\ pc' = "confirm"
                   /\ default' = <<"y">>
                   /\ UNCHANGED exitKind
    /\ UNCHANGED <<cli_arguments, email_body, email_attachment, idx, choice,
                   confirmResult, prompted, se, conns, calls, events>>

(***************************************************************************)
(* confirm_action, lines 130-139: one turn of the loop on the line the     *)
(* operator types.                                                         *)
(***************************************************************************)
ConfirmIteration(line) ==
    /\ pc = "confirm"
    /\ prompted' = TRUE
    /\ choice' = Str(line)
    /\ LET outcome == ConfirmOutcome(line, default)
       IN  IF outcome = "retry"
           THEN UNCHANGED <<pc, confirmResult>>
           ELSE /\ pc' = "confirm_ret"
                /\ confirmResult' = outcome
    /\ UNCHANGED <<exitKind, cli_arguments, email_body, email_attachment,
                   recipient_information, idx, default, se, conns, calls, events>>

(***************************************************************************)
(* send_multiple_emails, lines 109-111.                                    *)
(***************************************************************************)
\* Faulty variant: the answer is ignored.
DeclinedNever(result) == FALSE

Declined(result) == result = "False"

SME_AfterConfirm ==
    /\ pc = "confirm_ret"
    /\ IF Declined(confirmResult)
       THEN Exit("user_declined")
       ELSE pc' = "sme_loop" /\ UNCHANGED exitKind
    /\ choice' = None
    /\ default' = <<>>
    /\ UNCHANGED <<cli_arguments, email_body, email_attachment,
                   recipient_information, idx, confirmResult, prompted, se, conns,
                   calls, events>>

(***************************************************************************)
(* send_multiple_emails, lines 114-116: the next row, or the end.          *)
(***************************************************************************)
SME_NextRecipient ==
    /\ pc = "sme_loop"
    /\ IF idx < Len(recipient_information)
       THEN LET individual_recipient == recipient_information[idx + 1]
            IN  /\ idx' = idx + 1
                /\ se' = [NoLocals EXCEPT
                            !.to = DictGet(individual_recipient, Str(EmailAddress)),
                            !.repl = DictOf(individual_recipient)]
                /\ calls' = Append(calls, idx + 1)
                /\ pc' = "se_headers"
                /\ UNCHANGED exitKind
       ELSE /\ Exit("completed")
            /\ UNCHANGED <<idx, se, calls>>
    /\ UNCHANGED <<cli_arguments, email_body, email_attachment,
                   recipient_information, default, choice, confirmResult, prompted,
                   conns, events>>

\* line 117
SME_Sleep ==
    /\ pc = "sme_sleep"
    /\ events' = Append(events, [type |-> "delay", i |-> idx, msg |-> NoMsg])
    /\ pc' = "sme_loop"
    /\ UNCHANGED <<exitKind, cli_arguments, email_body, email_attachment,
                   recipient_information, idx, default, choice, confirmResult,
                   prompted, se, conns, calls>>

(***************************************************************************)
(* send_email.                                                             *)
(***************************************************************************)
\* lines 19-31
SE_Headers ==
    /\ pc = "se_headers"
    /\ se' = [se EXCEPT !.from = FromHeader(cli_arguments.sender_display_name,
                                            cli_arguments.sender_address,
                                            cli_arguments.hide_source_email)]
    /\ pc' = "se_body"
    /\ UNCHANGED <<exitKind, cli_arguments, email_body, email_attachment,
                   recipient_information, idx, default, choice, confirmResult,
                   prompted, conns, calls, events>>

\* lines 34-36
SE_ReadBody ==
    /\ pc = "se_body"
    /\ se' = [se EXCEPT !.body = ReadAll(email_body)]
    /\ email_body' = Rewind(AtEnd(email_body))
    /\ pc' = "se_subst"
    /\ UNCHANGED <<exitKind, cli_arguments, email_attachment,
                   recipient_information, idx, default, choice, confirmResult,
                   prompted, conns, calls, events>>

\* lines 39-46
SE_Substitute ==
    /\ pc = "se_subst"
    /\ LET r == IF se.repl # None
                THEN SubstituteFrom(se.body, se.repl.s, 1)
                ELSE [ok |-> TRUE, body |-> se.body]
       IN  IF r.ok
           THEN /\ se' = [se EXCEPT !.body = r.body]
                /\ pc' = "se_attach"
                /\ UNCHANGED exitKind
           ELSE /\ Throw("TypeError")
                /\ UNCHANGED se
    /\ UNCHANGED <<cli_arguments, email_body, email_attachment,
                   recipient_information, idx, default, choice, confirmResult,
                   prompted, conns, calls, events>>

\* lines 49-59
SE_Attach ==
    /\ pc = "se_attach"
    /\ IF email_attachment.present
       THEN /\ se' = [se EXCEPT !.attachment = Str(ReadAll(email_attachment))]
            /\ email_attachment' = Rewind(AtEnd(email_attachment))
       ELSE UNCHANGED <<se, email_attachment>>
    /\ pc' = "se_connect"
    /\ UNCHANGED <<exitKind, cli_arguments, email_body, recipient_information,
                   idx, default, choice, confirmResult, prompted, conns, calls,
                   events>>

(***************************************************************************)
(* The with statement of line 62: smtplib.SMTP(host, port) connects or     *)
(* raises; leaving the block, by its end or by an exception, runs          *)
(* SMTP.__exit__, which closes the connection.                             *)
(***************************************************************************)
\* Faulty variant: the connection is left open.
SmtpExitLeak(c) == c

SmtpExit(c) == [c EXCEPT ![Len(c)].open = FALSE]

SE_Connect ==
    /\ pc = "se_connect"
    /\ \E ok \in BOOLEAN :
          IF ok
          THEN /\ conns' = Append(conns, [open |-> TRUE, msgs |-> 0])
               /\ pc' = IF cli_arguments.smtp_username # None
                        THEN "se_login" ELSE "se_send"
               /\ UNCHANGED exitKind
          ELSE /\ Throw("connect_failed")
               /\ UNCHANGED conns
    /\ UNCHANGED <<cli_arguments, email_body, email_attachment,
                   recipient_information, idx, default, choice, confirmResult,
                   prompted, se, calls, events>>

\* lines 65-71: ehlo, starttls, ehlo, login; any of them may raise
SE_Login ==
    /\ pc = "se_login"
    /\ \E ok \in BOOLEAN :
          IF ok
          THEN /\ pc' = "se_send"
               /\ UNCHANGED <<exitKind, conns>>
          ELSE /\ conns' = SmtpExit(conns)
               /\ Throw("login_failed")
    /\ UNCHANGED <<cli_arguments, email_body, email_attachment,
                   recipient_information, idx, default, choice, confirmResult,
                   prompted, se, calls, events>>

\* lines 74-80, the end of the with block and the return to the caller
SE_Send ==
    /\ pc = "se_send"
    /\ \E ok \in BOOLEAN :
          IF ok
          THEN /\ events' = Append(events,
                      [type |-> "send", i |-> idx,
                       msg |-> [to |-> se.to, from |-> se.from, body |-> se.body,
                                attachment |-> se.attachment,
                                mail_from |-> MailFrom(
                                    cli_arguments.envelope_sender_address,
                                    se.from)]])
               /\ conns' = SmtpExit([conns EXCEPT ![Len(conns)].msgs = @ + 1])
               /\ se' = NoLocals
               /\ IF cli_arguments.recipient # None
                  THEN Exit("completed")
                  ELSE pc' = "sme_sleep" /\ UNCHANGED exitKind
          ELSE /\ conns' = SmtpExit(conns)
               /\ Throw("send_failed")
               /\ UNCHANGED <<events, se>>
    /\ UNCHANGED <<cli_arguments, email_body, email_attachment,
                   recipient_information, idx, default, choice, confirmResult,
                   prompted, calls>>

Next ==
    \/ Main
    \/ SME_Parse
    \/ \E line \in SampleLines : ConfirmIteration(line)
    \/ SME_AfterConfirm
    \/ SME_NextRecipient
    \/ SME_Sleep
    \/ SE_Headers
    \/ SE_ReadBody
    \/ SE_Substitute
    \/ SE_Attach
    \/ SE_Connect
    \/ SE_Login
    \/ SE_Send

Spec == Init /\ [][Next]_vars

(***************************************************************************)
(* confirm_action on its own, with either default and every line of up to  *)
(* MaxLineLen characters.                                                  *)
(***************************************************************************)
ConfirmInit ==
    /\ pc = "confirm"
    /\ default \in {<<"y">>, <<"n">>}
    /\ cli_arguments = Args(None, ListOf(<<>>), <<>>, FALSE, None, <<None, None>>)
    /\ email_body = OpenFile(<<>>)
    /\ email_attachment = NoFile
    /\ choice = None
    /\ se = NoLocals
    /\ Idle

ConfirmNext == \E line \in AllLines : ConfirmIteration(line)

SpecConfirm == ConfirmInit /\ [][ConfirmNext]_vars

(***************************************************************************)
(* The body steps of send_email on their own (lines 34-46), for every body *)
(* of up to MaxBodyLen characters and every mapping of one or two keys.    *)
(***************************************************************************)
TplBodies == SeqsUpTo({"$", "a", "c"}, MaxBodyLen)
TplKeys == {<<"a">>, <<"c">>}
TplValues == {<<>>, <<"$">>, <<"a">>, <<"c">>, <<"z">>}
TplMappings ==
    {<<[key |-> Str(k), value |-> Str(v)]>> : k \in TplKeys, v \in TplValues}
    \cup
    {m \in {<<[key |-> Str(k1), value |-> Str(v1)],
               [key |-> Str(k2), value |-> Str(v2)]>> :
                 k1 \in TplKeys, k2 \in TplKeys, v1 \in TplValues, v2 \in TplValues} :
        m[1].key # m[2].key}

TemplateInit ==
    /\ pc = "se_body"
    /\ email_body \in {OpenFile(b) : b \in TplBodies}
    /\ se \in {[NoLocals EXCEPT !.to = Str(Alice), !.repl = DictOf(m)] :
                  m \in TplMappings}
    /\ cli_arguments = Args(None, ListOf(<<>>), <<>>, FALSE, None, <<None, None>>)
    /\ email_attachment = NoFile
    /\ default = <<>>
    /\ choice = None
    /\ Idle

TemplateNext == SE_ReadBody \/ SE_Substitute

SpecTemplate == TemplateInit /\ [][TemplateNext]_vars

(***************************************************************************)
(* Vocabulary of the properties.                                           *)
(***************************************************************************)
Batch == cli_arguments.recipient = None
Sends == SelectSeq(events, LAMBDA e : e.type = "send")
DeliveryFailures == {"connect_failed", "login_failed", "send_failed"}
InSendEmail ==
    pc \in {"se_headers", "se_body", "se_subst", "se_attach", "se_connect",
            "se_login", "se_send"}
NothingSent == calls = <<>> /\ conns = <<>> /\ events = <<>>

\* t occurs in s
Contains(s, t) ==
    \E i \in 0..(Len(s) - Len(t)) : SubSeq(s, i + 1, i + Len(t)) = t

\* the lines of a recipient file that hold data, and its header line
DataRows(file) == IF file = <<>> THEN <<>> ELSE SelectSeq(Tail(file), LAMBDA r : r # <<>>)
HeaderHas(file, field) ==
    file # <<>> /\ \E i \in DOMAIN Head(file) : Head(file)[i] = field

(***************************************************************************)
(* C1: in a batch run no send_email call, connection or message happens    *)
(* before confirm_action has returned True, and once it has returned False *)
(* the run ends as a user termination with nothing sent.                   *)
(***************************************************************************)
C1_DeclineSendsNothing ==
    (Batch /\ confirmResult # "True") =>
        /\ NothingSent
        /\ confirmResult = "False" =>
              /\ pc \in {"confirm_ret", "exited"}
              /\ pc = "exited" => exitKind = "user_declined"

C1_Witness ==
    /\ Batch
    /\ pc = "exited"
    /\ exitKind = "user_declined"
    /\ Len(recipient_information) = 2

(***************************************************************************)
(* C2: a recipient file with no data row, or whose header line lacks the   *)
(* exact field name EmailAddress, ends the run before the confirmation     *)
(* prompt is shown and before anything is sent.                            *)
(***************************************************************************)
C2_InvalidTableRejected ==
    LET file == cli_arguments.recipient_file.s
    IN  (Batch /\ (DataRows(file) = <<>> \/ ~HeaderHas(file, EmailAddress))) =>
            /\ ~prompted
            /\ NothingSent
            /\ pc \in {"main", "sme_parse", "exited"}
            /\ pc = "exited" =>
                  exitKind \in {"too_short", "missing_field", "config_error"}

C2_Witness ==
    /\ Batch
    /\ pc = "exited"
    /\ exitKind = "missing_field"
    /\ Head(cli_arguments.recipient_file.s) = <<Email, email_address>>
    /\ Len(recipient_information) = 2

(***************************************************************************)
(* C3: a batch run that passed validation, was confirmed and met no        *)
(* delivery failure ends having produced send(r1), delay, ..., send(rn),   *)
(* delay: one message per data row in file order, to that row's            *)
(* EmailAddress, with that row's fields substituted into the template.     *)
(***************************************************************************)
ExpectedEvent(k) ==
    LET i == (k + 1) \div 2
        row == recipient_information[i]
    IN  IF k % 2 = 1
        THEN [type |-> "send", i |-> i, to |-> DictGet(row, Str(EmailAddress)),
              body |-> SubstituteFrom(email_body.content, row, 1).body]
        ELSE [type |-> "delay", i |-> i, to |-> None, body |-> <<>>]

ObservedEvent(e) == [type |-> e.type, i |-> e.i, to |-> e.msg.to, body |-> e.msg.body]

C3_EventSequence ==
    (Batch /\ pc = "exited" /\ confirmResult = "True"
           /\ exitKind \notin DeliveryFailures) =>
        /\ Len(events) = 2 * Len(recipient_information)
        /\ \A k \in DOMAIN events : ObservedEvent(events[k]) = ExpectedEvent(k)

(***************************************************************************)
(* C4 as stated: after the substitution loop the body holds no $k$ for any *)
(* key k of the mapping.                                                   *)
(***************************************************************************)
NoEggLeft == \A j \in DOMAIN se.repl.s : ~Contains(se.body, Egg(se.repl.s[j].key))

C4_FullSubstitution ==
    (pc = "se_attach" /\ se.repl # None) => NoEggLeft

(***************************************************************************)
(* C4 amended: after the substitution loop the body holds no $k$ for any   *)
(* key k of the mapping, provided no value of the mapping contains the     *)
(* character $ and no value occurs inside a key (an empty value occurs     *)
(* inside every key).                                                      *)
(***************************************************************************)
PlainValues ==
    \A j \in DOMAIN se.repl.s :
        /\ ~Contains(se.repl.s[j].value.s, <<"$">>)
        /\ \A k \in DOMAIN se.repl.s :
              ~Contains(se.repl.s[k].key.s, se.repl.s[j].value.s)

C4_FullSubstitutionPlainValues ==
    (pc = "se_attach" /\ se.repl # None /\ PlainValues) => NoEggLeft

C4_Witness ==
    /\ pc = "se_attach"
    /\ se.repl # None
    /\ Len(se.repl.s) = 2
    /\ PlainValues
    /\ \A j \in DOMAIN se.repl.s : Contains(email_body.content, Egg(se.repl.s[j].key))
    /\ NoEggLeft

FromHeaders ==
    {Sends[k].msg.from : k \in DOMAIN Sends}
        \cup (IF InSendEmail /\ pc # "se_headers" THEN {se.from} ELSE {})

PlainFrom ==
    <<"\"">> \o cli_arguments.sender_display_name \o <<"\"", " ", "<">>
        \o cli_arguments.sender_address \o <<">">>

PaddedFrom(width) ==
    <<"\"">> \o cli_arguments.sender_display_name \o [i \in 1..width |-> " "]
        \o <<"|", "\"", " ", "<">> \o cli_arguments.sender_address \o <<">">>

C6_Padding200 ==
    \A h \in FromHeaders :
        h = IF cli_arguments.hide_source_email THEN PaddedFrom(200) ELSE PlainFrom

(***************************************************************************)
(* C6 amended: with hide_source_email the From header is the display name, *)
(* then one separating space and 200 padding spaces (201 spaces in all),   *)
(* then a pipe, before the address; without it the header is exactly       *)
(* "name" <address>.                                                       *)
(***************************************************************************)
C6_Padding201 ==
    \A h \in FromHeaders :
        h = IF cli_arguments.hide_source_email THEN PaddedFrom(201) ELSE PlainFrom

C6_Witness ==
    /\ Len(Sends) = 1
    /\ cli_arguments.hide_source_email
    /\ cli_arguments.sender_display_name = <<"B", " ">>

(***************************************************************************)
(* C7: every turn of confirm_action's loop, for a default of y or n and    *)
(* whatever was typed before: an empty line or the default, in either      *)
(* case, returns True; the other of y and n, in either case, returns       *)
(* False; any other line returns nothing and leaves the call prompting.    *)
(* Nothing follows a return, so the first valid line alone decides.        *)
(***************************************************************************)
Accepting(dflt) ==
    {<<>>} \cup (IF dflt = <<"y">> THEN {<<"y">>, <<"Y">>} ELSE {<<"n">>, <<"N">>})
Declining(dflt) ==
    IF dflt = <<"y">> THEN {<<"n">>, <<"N">>} ELSE {<<"y">>, <<"Y">>}

C7_ConfirmDecision ==
    [][ /\ pc = "confirm"
        /\ prompted'
        /\ IF choice'.s \in Accepting(default)
           THEN pc' = "confirm_ret" /\ confirmResult' = "True"
           ELSE IF choice'.s \in Declining(default)
           THEN pc' = "confirm_ret" /\ confirmResult' = "False"
           ELSE pc' = "confirm" /\ confirmResult' = "None" ]_vars

C7_Witness ==
    /\ pc = "confirm_ret"
    /\ default = <<"n">>
    /\ choice = Str(<<"Y">>)
    /\ confirmResult = "False"

(***************************************************************************)
(* C8: when connecting, login or submission fails for row i of a batch     *)
(* run, the run is over: rows 1..i-1 were each sent one message on a       *)
(* connection of their own, row i was attempted once, and nothing was      *)
(* attempted, connected or sent for a later row.                           *)
(***************************************************************************)
C8_FailureEndsRun ==
    (Batch /\ exitKind \in DeliveryFailures) =>
        /\ pc = "exited"
        /\ ~ENABLED Next
        /\ calls = [j \in 1..idx |-> j]
        /\ Len(Sends) = idx - 1
        /\ \A j \in DOMAIN Sends : Sends[j].i = j
        /\ Len(conns) = IF exitKind = "connect_failed" THEN idx - 1 ELSE idx
        /\ \A j \in DOMAIN conns : conns[j].msgs = IF j < idx THEN 1 ELSE 0

C8_Witness ==
    /\ Batch
    /\ exitKind = "login_failed"
    /\ idx = 1
    /\ Len(recipient_information) = 2

(***************************************************************************)
(* C9: a connection carries at most one message, is closed whenever        *)
(* control is outside send_email's with block (so also after a failed      *)
(* login or submission), and is the only one open while inside it.         *)
(***************************************************************************)
C9_ConnectionScoped ==
    /\ \A j \in DOMAIN conns : conns[j].msgs <= 1
    /\ \A j \in DOMAIN conns : conns[j].open => j = Len(conns)
    /\ pc \notin {"se_login", "se_send"} => \A j \in DOMAIN conns : ~conns[j].open

C9_Witness ==
    /\ pc = "exited"
    /\ exitKind = "send_failed"
    /\ Len(conns) = 2

(***************************************************************************)
(* C10: the body file and the attachment file never change; each is at     *)
(* position 0 when a send_email call starts and again before its network   *)
(* steps; the call's body is the whole file when substitution starts, the  *)
(* attachment payload is the whole attachment, and every message sent      *)
(* carries the substitution of its own row into the whole template.        *)
(***************************************************************************)
C10_SourcesRewound ==
    /\ [](/\ pc \in {"se_headers", "se_connect", "se_login", "se_send"} =>
                email_body.pos = 0 /\ email_attachment.pos = 0
          /\ pc = "se_subst" => se.body = email_body.content
          /\ (pc \in {"se_connect", "se_login", "se_send"}
                 /\ email_attachment.present) =>
                se.attachment = Str(email_attachment.content)
          /\ \A k \in DOMAIN Sends :
                Sends[k].msg.body =
                    IF Batch
                    THEN SubstituteFrom(email_body.content,
                                        recipient_information[Sends[k].i], 1).body
                    ELSE email_body.content)
    /\ [][/\ email_body'.content = email_body.content
          /\ email_attachment'.content = email_attachment.content]_vars

C10_Witness ==
    /\ pc = "se_headers"
    /\ idx = 2
    /\ email_attachment.present
    /\ Len(Sends) = 1
====
